---- MODULE Spec2Model ----
(***************************************************************************)
(* Model of backend/main.py: the POST /auth/google handler (auth_google),  *)
(* the "user" collection it upserts into, and the session token it mints.  *)
(* Each worker thread of the server is a process that handles one request  *)
(* at a time; the steps of a handler interleave with those of the others.  *)
(***************************************************************************)
EXTENDS Integers, Sequences, FiniteSets, TLC

\* ---------------------------------------------------------------- bounds
\* Requests accepted in one behaviour, over all workers.
MaxRequests == 3
\* Last instant of the clock, in ticks.
MaxClock == 2
\* Clock resolution: datetime.utcnow() is finer than the whole seconds of a
\* token's "exp" claim.
TicksPerSec == 2

\* Worker threads: the handler is a plain `def`, run in a thread pool.
Procs == {"w1", "w2"}

\* ------------------------------------------------------- program constants
JWT_EXPIRES_MIN == 43200

\* Python's None.
NoneV == "<None>"

AcceptedIssuers == {"accounts.google.com", "https://accounts.google.com"}

\* ----------------------------------------------------------------- inputs
\* A credential is the opaque string of the request body (raw) together with
\* what the provider's library finds in it: whether signature, expiry and
\* audience check out (sig), and the claims it carries.
Cred(raw, sig, iss, email, name, picture, sub) ==
    [raw |-> raw, sig |-> sig, iss |-> iss, email |-> email,
     name |-> name, picture |-> picture, sub |-> sub]

EmptyCredential == Cred("", FALSE, NoneV, NoneV, NoneV, NoneV, NoneV)

Credentials ==
    { EmptyCredential,
      Cred("jwt-a1", TRUE, "accounts.google.com", "alice@example.com",
           "Alice", "https://pic/a", "g-100"),
      Cred("jwt-a2", TRUE, "https://accounts.google.com", "alice@example.com",
           "Alice B.", NoneV, "g-101"),
      Cred("jwt-b1", TRUE, "accounts.google.com", "bob@example.com",
           "Bob", "https://pic/b", "g-200"),
      Cred("jwt-evil", TRUE, "evil.com", "alice@example.com",
           "Alice", "https://pic/a", "g-100"),
      Cred("jwt-evil-forged", FALSE, "evil.com", "alice@example.com",
           "Alice", "https://pic/a", "g-100"),
      Cred("jwt-forged", FALSE, "accounts.google.com", "alice@example.com",
           "Alice", "https://pic/a", "g-100"),
      Cred("jwt-noemail", TRUE, "accounts.google.com", NoneV,
           "Nobody", NoneV, "g-300") }

ProviderSubjects == { c.sub : c \in Credentials }

\* ------------------------------------------------------------------ state
VARIABLES
    dbConfigured,   \* `db is not None` (database module, fixed at import)
    users,          \* db["user"]: the documents, in insertion order
    nextId,         \* the store's ObjectId generator
    clock,          \* datetime.utcnow(), in ticks
    nreq,           \* requests accepted so far
    req             \* per worker: the handler's position and locals

vars == <<dbConfigured, users, nextId, clock, nreq, req>>

\* ---------------------------------------------------------------- helpers
\* str(ObjectId): the hexadecimal text of a generated identifier.
OidHex == << "65f0c0de0001", "65f0c0de0002", "65f0c0de0003", "65f0c0de0004",
             "65f0c0de0005", "65f0c0de0006", "65f0c0de0007", "65f0c0de0008" >>

ObjectIdStr(oid) == OidHex[oid]

\* A document with the fields of `s` written over those of `r`.
Merge(r, s) ==
    [k \in (DOMAIN r) \cup (DOMAIN s) |-> IF k \in DOMAIN s THEN s[k] ELSE r[k]]

\* A document matches a filter when it has every field of the filter.
Matches(doc, filter) ==
    \A k \in DOMAIN filter : k \in DOMAIN doc /\ doc[k] = filter[k]

MatchIdx(coll, filter) == { i \in 1..Len(coll) : Matches(coll[i], filter) }

Min(S) == CHOOSE x \in S : \A y \in S : x <= y

\* collection.update_one(filter, {"$set": set, "$setOnInsert": onInsert},
\* upsert=True), as one atomic store operation: the first matching document
\* gets the $set fields; with no match a document is inserted that holds the
\* filter's fields, the $set and $setOnInsert fields and a fresh _id.
update_one(coll, filter, set, onInsert, oid) ==
    IF MatchIdx(coll, filter) # {}
    THEN [coll EXCEPT ![Min(MatchIdx(coll, filter))] = Merge(@, set)]
    ELSE Append(coll, Merge(Merge(Merge([_id |-> oid], filter), set), onInsert))

\* collection.find_one(filter): the first matching document, as a sequence
\* of length 0 (None) or 1.
find_one(coll, filter) ==
    IF MatchIdx(coll, filter) = {} THEN << >>
    ELSE << coll[Min(MatchIdx(coll, filter))] >>

\* jose's encoding of a datetime "exp": whole seconds since the epoch.
NumericDate(t) == t \div TicksPerSec

\* timedelta(minutes=m), in ticks.
Minutes(m) == m * 60 * TicksPerSec

\* ------------------------------------------------------------- responses
NoResp == [status |-> 0, detail |-> "", token |-> << >>, user |-> << >>]

\* raise HTTPException(status_code=..., detail=...)
HTTPError(status, detail) ==
    [status |-> status, detail |-> detail, token |-> << >>, user |-> << >>]

MissingCredentialDetail == "Missing credential"
DbNotConfiguredDetail == "Database not configured"
WrongIssuer == "Wrong issuer."
NoEmail == "No email in Google token"
\* What the provider's library raises for a bad signature, expiry or audience.
VerifyError == "Could not verify token signature."
\* What the store driver raises when a call cannot be carried out.
StoreError == "ServerSelectionTimeoutError"
NoneTypeError == "'NoneType' object has no attribute 'get'"

\* except Exception as e: raise HTTPException(401, f"Invalid Google token: {e}")
InvalidToken(e) == HTTPError(401, "Invalid Google token: " \o e)

\* ----------------------------------------------------------------- locals
IdleReq ==
    [pc |-> "idle", cred |-> EmptyCredential, now |-> 0, user_id |-> NoneV,
     called |-> {}, mintedAt |-> 0, resp |-> NoResp]

Respond(p, r, calls) ==
    req' = [req EXCEPT ![p].pc = "done", ![p].resp = r,
                       ![p].called = @ \cup calls]

\* ------------------------------------------------------------------- Init
Init ==
    /\ dbConfigured \in BOOLEAN
    /\ users = << >>
    /\ nextId = 1
    /\ clock = 0
    /\ nreq = 0
    /\ req = [p \in Procs |-> IdleReq]

\* ---------------------------------------------------------------- actions
\* The clock advances.
Tick ==
    /\ clock < MaxClock
    /\ clock' = clock + 1
    /\ UNCHANGED <<dbConfigured, users, nextId, nreq, req>>

\* Receive without the guard of lines 62-63: an empty credential goes on to
\* the verification step.
ReceiveNoCredentialCheck(p, c) ==
    /\ req[p].pc \in {"idle", "done"}
    /\ nreq < MaxRequests
    /\ nreq' = nreq + 1
    /\ req' = [req EXCEPT ![p] =
                 IF ~dbConfigured
                 THEN [IdleReq EXCEPT !.cred = c, !.pc = "done",
                          !.resp = HTTPError(500, DbNotConfiguredDetail)]
                 ELSE [IdleReq EXCEPT !.cred = c, !.pc = "verify"]]
    /\ UNCHANGED <<dbConfigured, users, nextId, clock>>

\* Lines 59-63: a request arrives at a free worker; the two guards.
Receive(p, c) ==
    /\ req[p].pc \in {"idle", "done"}
    /\ nreq < MaxRequests
    /\ nreq' = nreq + 1
    /\ req' = [req EXCEPT ![p] =
                 IF ~dbConfigured
                 THEN [IdleReq EXCEPT !.cred = c, !.pc = "done",
                          !.resp = HTTPError(500, DbNotConfiguredDetail)]
                 ELSE IF c.raw = ""
                 THEN [IdleReq EXCEPT !.cred = c, !.pc = "done",
                          !.resp = HTTPError(400, MissingCredentialDetail)]
                 ELSE [IdleReq EXCEPT !.cred = c, !.pc = "verify"]]
    /\ UNCHANGED <<dbConfigured, users, nextId, clock>>

\* The upsert keyed on the provider's subject instead of the email.
UpsertFilterBySub(p) == [google_sub |-> req[p].cred.sub]

\* Line 84: the filter of the upsert.
UpsertFilter(p) == [email |-> req[p].cred.email]

\* The $set document with created_at in it, where $setOnInsert should hold it.
SetDocWithCreated(p) ==
    [email |-> req[p].cred.email, name |-> req[p].cred.name,
     picture |-> req[p].cred.picture, provider |-> "google",
     google_sub |-> req[p].cred.sub, updated_at |-> req[p].now,
     created_at |-> req[p].now]

\* Lines 86-93: the $set document.
SetDoc(p) ==
    [email |-> req[p].cred.email, name |-> req[p].cred.name,
     picture |-> req[p].cred.picture, provider |-> "google",
     google_sub |-> req[p].cred.sub, updated_at |-> req[p].now]

\* Line 94: the $setOnInsert document.
SetOnInsertDoc(p) == [created_at |-> req[p].now]

\* The issuer check dropped.
IssuerAcceptedAny(iss) == TRUE

IssuerAccepted(iss) == iss \in AcceptedIssuers

\* Verify with the issuer check placed after the upsert: a credential with a
\* foreign issuer is written to the store before it is rejected.
VerifyIssuerAfterUpsert(p) ==
    /\ req[p].pc = "verify"
    /\ LET c == req[p].cred
           calls == {"verify_oauth2_token"} IN
       IF ~c.sig
       THEN Respond(p, InvalidToken(VerifyError), calls)
            /\ UNCHANGED <<users, nextId>>
       ELSE IF c.email \in {NoneV, ""}
       THEN Respond(p, InvalidToken(NoEmail), calls)
            /\ UNCHANGED <<users, nextId>>
       ELSE IF ~IssuerAccepted(c.iss)
       THEN /\ users' = update_one(users, UpsertFilter(p),
                                   [SetDoc(p) EXCEPT !.updated_at = clock],
                                   [created_at |-> clock], nextId)
            /\ nextId' = IF Len(users') > Len(users) THEN nextId + 1 ELSE nextId
            /\ Respond(p, InvalidToken(WrongIssuer), calls \cup {"update_one"})
       ELSE /\ req' = [req EXCEPT ![p].pc = "update_one", ![p].now = clock,
                                  ![p].called = @ \cup calls]
            /\ UNCHANGED <<users, nextId>>
    /\ UNCHANGED <<dbConfigured, clock, nreq>>

\* Lines 65-82: verify_oauth2_token, the issuer check, the email check, and
\* the clock read that follows them.
Verify(p) ==
    /\ req[p].pc = "verify"
    /\ LET c == req[p].cred
           calls == {"verify_oauth2_token"} IN
       IF ~c.sig
       THEN Respond(p, InvalidToken(VerifyError), calls)
       ELSE IF ~IssuerAccepted(c.iss)
       THEN Respond(p, InvalidToken(WrongIssuer), calls)
       ELSE IF c.email \in {NoneV, ""}
       THEN Respond(p, InvalidToken(NoEmail), calls)
       ELSE req' = [req EXCEPT ![p].pc = "update_one", ![p].now = clock,
                               ![p].called = @ \cup calls]
    /\ UNCHANGED <<dbConfigured, users, nextId, clock, nreq>>

\* Lines 83-97: the upsert is carried out.
Upsert(p) ==
    /\ req[p].pc = "update_one"
    /\ users' = update_one(users, UpsertFilter(p), SetDoc(p),
                           SetOnInsertDoc(p), nextId)
    /\ nextId' = IF Len(users') > Len(users) THEN nextId + 1 ELSE nextId
    /\ req' = [req EXCEPT ![p].pc = "find_one",
                          ![p].called = @ \cup {"update_one"}]
    /\ UNCHANGED <<dbConfigured, clock, nreq>>

\* Lines 83-97 and 116-117: the store is unreachable or rejects the write;
\* update_one raises and the handler's except clause answers.
UpsertRaise(p) ==
    /\ req[p].pc = "update_one"
    /\ Respond(p, InvalidToken(StoreError), {"update_one"})
    /\ UNCHANGED <<dbConfigured, users, nextId, clock, nreq>>

\* Lines 99-100: the re-read of the document and its identifier.
FindOne(p) ==
    /\ req[p].pc = "find_one"
    /\ LET doc == find_one(users, [email |-> req[p].cred.email]) IN
       IF doc = << >>
       THEN Respond(p, InvalidToken(NoneTypeError), {"find_one"})
       ELSE req' = [req EXCEPT ![p].pc = "encode",
                               ![p].user_id = ObjectIdStr(doc[1]._id),
                               ![p].called = @ \cup {"find_one"}]
    /\ UNCHANGED <<dbConfigured, users, nextId, clock, nreq>>

\* Lines 99 and 116-117: the store is unreachable; find_one raises.
FindRaise(p) ==
    /\ req[p].pc = "find_one"
    /\ Respond(p, InvalidToken(StoreError), {"find_one"})
    /\ UNCHANGED <<dbConfigured, users, nextId, clock, nreq>>

\* The expiry counted from the timestamp of the upsert (line 82).
TokenClaimsExpFromNow(p) ==
    [sub |-> req[p].user_id, email |-> req[p].cred.email,
     exp |-> NumericDate(req[p].now + Minutes(JWT_EXPIRES_MIN))]

\* The provider's subject as the token's subject.
TokenClaimsProviderSub(p) ==
    [sub |-> req[p].cred.sub, email |-> req[p].cred.email,
     exp |-> NumericDate(clock + Minutes(JWT_EXPIRES_MIN))]

\* Lines 103-104: the claims of the token, as jwt.encode writes them.
TokenClaims(p) ==
    [sub |-> req[p].user_id, email |-> req[p].cred.email,
     exp |-> NumericDate(clock + Minutes(JWT_EXPIRES_MIN))]

\* Lines 108-114: the public view of the user.
UserView(p) ==
    [id |-> req[p].user_id, email |-> req[p].cred.email,
     name |-> req[p].cred.name, picture |-> req[p].cred.picture,
     provider |-> "google"]

\* Lines 102-115: the token and the response.
MintToken(p) ==
    /\ req[p].pc = "encode"
    /\ req' = [req EXCEPT
                 ![p].pc = "done",
                 ![p].mintedAt = clock,
                 ![p].called = @ \cup {"jwt.encode"},
                 ![p].resp = [status |-> 200, detail |-> "",
                              token |-> << TokenClaims(p) >>,
                              user |-> << UserView(p) >>]]
    /\ UNCHANGED <<dbConfigured, users, nextId, clock, nreq>>

Next ==
    \/ Tick
    \/ \E p \in Procs, c \in Credentials : Receive(p, c)
    \/ \E p \in Procs : Verify(p)
    \/ \E p \in Procs : Upsert(p)
    \/ \E p \in Procs : UpsertRaise(p)
    \/ \E p \in Procs : FindOne(p)
    \/ \E p \in Procs : FindRaise(p)
    \/ \E p \in Procs : MintToken(p)

Spec == Init /\ [][Next]_vars

\* ------------------------------------------------------------ properties
Done(p) == req[p].pc = "done"
Succeeded(p) == Done(p) /\ req[p].resp.status = 200
EmailIdx(e) == { i \in 1..Len(users) : users[i].email = e }

\* The responses of the verification step's failures and of the missing
\* credential.
VerificationFailures ==
    { InvalidToken(VerifyError), InvalidToken(WrongIssuer), InvalidToken(NoEmail) }

\* The details with which a failure of the store reaches the caller.
StoreFailureDetails == { DbNotConfiguredDetail, InvalidToken(StoreError).detail }

\* C1: in every reachable state the collection holds at most one document
\* per email, whatever the interleaving of the handlers.
C1_AtMostOneRecordPerEmail ==
    \A i, j \in 1..Len(users) : users[i].email = users[j].email => i = j

\* Two handlers for the same email are both past their upsert and before
\* their re-read: the upserts overlapped, and one document stands.
C1_Witness ==
    /\ req["w1"].pc = "find_one" /\ req["w2"].pc = "find_one"
    /\ req["w1"].cred.email = req["w2"].cred.email
    /\ req["w1"].cred.raw # req["w2"].cred.raw
    /\ Len(users) = 1

\* C2: no partial success: a finished request either upserted and answers
\* with a token and a user view, or did not upsert and answers without a
\* token.
C2_NoPartialSuccess ==
    \A p \in Procs : Done(p) =>
        \/ /\ req[p].resp.status = 200
           /\ req[p].resp.token # << >> /\ req[p].resp.user # << >>
           /\ EmailIdx(req[p].cred.email) # {}
        \/ /\ req[p].resp.status # 200
           /\ req[p].resp.token = << >>
           /\ "find_one" \notin req[p].called

\* C3 as stated: an empty credential always yields MissingCredential, with
\* no verification and no store call, whether or not the store is configured.
C3_EmptyAlwaysMissingCredential ==
    \A p \in Procs : (Done(p) /\ req[p].cred.raw = "") =>
        /\ req[p].resp = HTTPError(400, MissingCredentialDetail)
        /\ req[p].called = {}

\* C3 as amended: with the store configured an empty credential yields
\* MissingCredential; with the store not configured it yields the 500
\* "Database not configured"; in both cases nothing is verified and the
\* store is not called.
C3_EmptyCredentialOutcome ==
    \A p \in Procs : (Done(p) /\ req[p].cred.raw = "") =>
        /\ req[p].called = {}
        /\ req[p].resp = IF dbConfigured
                         THEN HTTPError(400, MissingCredentialDetail)
                         ELSE HTTPError(500, DbNotConfiguredDetail)

\* An empty credential was answered while the store is configured and holds
\* a document.
C3_Witness ==
    /\ dbConfigured /\ users # << >>
    /\ \E p \in Procs : Done(p) /\ req[p].cred.raw = "" /\ req[p].resp.status = 400

\* C4: a failure of the store, found before the flow or during the upsert or
\* the re-read, is answered with a server-error status, not the status of a
\* verification failure, and without a token.
C4_StoreFailureIsServerError ==
    \A p \in Procs : (Done(p) /\ req[p].resp.detail \in StoreFailureDetails) =>
        /\ req[p].resp.status = 500
        /\ req[p].resp.status \notin { r.status : r \in VerificationFailures }
        /\ req[p].resp.token = << >>

\* C5: a document keeps its _id, its email and its created_at in every step;
\* an upsert leaves the latest name and picture in the document of its
\* email; a successful response carries the identifier of that document, the
\* one any other finished request for the email carries.
C5_IdentifierAndCreatedStable ==
    [][ /\ \A i \in 1..Len(users) :
              /\ i <= Len(users')
              /\ users'[i]._id = users[i]._id
              /\ users'[i].email = users[i].email
              /\ users'[i].created_at = users[i].created_at
        /\ \A p \in Procs :
              (req[p].pc = "update_one" /\ req'[p].pc = "find_one") =>
                  \E i \in 1..Len(users') :
                      /\ users'[i].email = req[p].cred.email
                      /\ users'[i].name = req[p].cred.name
                      /\ users'[i].picture = req[p].cred.picture
        /\ \A p \in Procs :
              (req[p].pc = "encode" /\ req'[p].pc = "done") =>
                  /\ \A i \in 1..Len(users) :
                        users[i].email = req[p].cred.email =>
                            req'[p].resp.user[1].id = ObjectIdStr(users[i]._id)
                  /\ \A q \in Procs :
                        (Succeeded(q) /\ req[q].cred.email = req[p].cred.email) =>
                            req'[p].resp.user[1].id = req[q].resp.user[1].id
      ]_vars

\* A document was re-authenticated after the clock moved, with new claims,
\* and two finished requests for its email, with different names, stand.
C5_Witness ==
    /\ \E i \in 1..Len(users) : users[i].updated_at > users[i].created_at
    /\ \E p, q \in Procs :
          /\ Succeeded(p) /\ Succeeded(q)
          /\ req[p].cred.email = req[q].cred.email
          /\ req[p].cred.name # req[q].cred.name

\* C6: the updated_at of a document never moves backwards.
C6_UpdatedNeverBackwards ==
    [][ \A i \in 1..Len(users) :
            i <= Len(users') /\ users'[i].updated_at >= users[i].updated_at ]_vars

\* C7 as stated: a credential with an issuer outside the accepted set is
\* answered with the wrong-issuer reason, whatever its signature.
C7_WrongIssuerAlwaysReported ==
    \A p \in Procs :
        (Done(p) /\ dbConfigured /\ req[p].cred.raw # ""
                 /\ req[p].cred.iss \notin AcceptedIssuers) =>
            req[p].resp = InvalidToken(WrongIssuer)

\* C7 as amended: such a credential is always answered 401 without a token;
\* the reason is the wrong issuer exactly when the signature and audience
\* check passes, and the library's own reason when it fails.
C7_WrongIssuerRejected ==
    \A p \in Procs :
        (Done(p) /\ dbConfigured /\ req[p].cred.raw # ""
                 /\ req[p].cred.iss \notin AcceptedIssuers) =>
            /\ req[p].resp.status = 401
            /\ req[p].resp.token = << >>
            /\ req[p].resp = IF req[p].cred.sig
                             THEN InvalidToken(WrongIssuer)
                             ELSE InvalidToken(VerifyError)

\* Both kinds of foreign-issuer credential were answered: the signed one and
\* the forged one.
C7_Witness ==
    \E p, q \in Procs :
        /\ Done(p) /\ req[p].cred.iss = "evil.com" /\ req[p].cred.sig
        /\ Done(q) /\ req[q].cred.iss = "evil.com" /\ ~req[q].cred.sig
        /\ req[p].resp.status = 401 /\ req[q].resp.status = 401

\* C8: the exp of a minted token is the second of its minting plus
\* JWT_EXPIRES_MIN minutes, and a token once answered is not altered.
C8_ExpiryFromIssuance ==
    /\ [](\A p \in Procs : Succeeded(p) =>
             req[p].resp.token[1].exp =
                 NumericDate(req[p].mintedAt) + JWT_EXPIRES_MIN * 60)
    /\ [][ \A p \in Procs :
             (req[p].resp.token # << >> /\ req'[p].resp.token # << >>) =>
                 req'[p].resp.token = req[p].resp.token ]_vars

\* A token was minted a second later than its request read the clock for
\* the upsert.
C8_Witness ==
    \E p \in Procs :
        Succeeded(p) /\ NumericDate(req[p].mintedAt) > NumericDate(req[p].now)

\* C9: a request that ends in MissingCredential or in a verification failure
\* made no store call, and the step that answers it leaves the collection as
\* it was.
C9_FailuresLeaveStoreUnchanged ==
    /\ [](\A p \in Procs :
             (Done(p) /\ req[p].resp \in
                  VerificationFailures \cup {HTTPError(400, MissingCredentialDetail)})
             => req[p].called \subseteq {"verify_oauth2_token"})
    /\ [][ \A p \in Procs :
             (req[p].pc # "done" /\ req'[p].pc = "done" /\ req'[p].resp \in
                  VerificationFailures \cup {HTTPError(400, MissingCredentialDetail)})
             => (users' = users /\ nextId' = nextId) ]_vars

\* The evil.com credential was rejected while the collection holds a
\* document of the same email.
C9_Witness ==
    \E p \in Procs :
        /\ Done(p) /\ req[p].cred.raw = "jwt-evil"
        /\ req[p].resp = InvalidToken(WrongIssuer)
        /\ EmailIdx(req[p].cred.email) # {}

\* C10: in a successful response the token's sub is the user view's id, the
\* identifier of the document of the authenticated email and no provider
\* subject, and the token's email is that document's email.
C10_TokenSubjectIsRecordId ==
    \A p \in Procs : Succeeded(p) =>
        LET t == req[p].resp.token[1]
            u == req[p].resp.user[1] IN
        /\ t.sub = u.id
        /\ t.sub \notin ProviderSubjects
        /\ EmailIdx(req[p].cred.email) # {}
        /\ \A i \in EmailIdx(req[p].cred.email) :
              /\ u.id = ObjectIdStr(users[i]._id)
              /\ t.email = users[i].email
              /\ u.email = users[i].email

\* A request succeeded although another request for its email upserted
\* after it did: the document holds the other request's name.
C10_Witness ==
    \E p \in Procs : Succeeded(p) /\
        \E i \in EmailIdx(req[p].cred.email) :
            /\ users[i].name # req[p].resp.user[1].name
            /\ Len(users) = 2

====
